---- MODULE Spec2Model ----
(***************************************************************************)
(* Zen-Sync: reconciliation of two local roots (roaming, local) with one   *)
(* flat remote key namespace; push (upload), pull (download) and           *)
(* bidirectional (sync) runs of src/sync.py, driven by src/cli.py.         *)
(*                                                                         *)
(* Text is modelled character by character: a Python str is a sequence of  *)
(* one-character strings, so that slicing (key[8:]), startswith, split,    *)
(* replace and fnmatch are computed as the code computes them.             *)
(* Paths are POSIX paths: "/" separates components and "\" is an ordinary  *)
(* character of a file name.                                               *)
(***************************************************************************)
EXTENDS Integers, Sequences, FiniteSets, TLC

VARIABLES
    config_file,   \* the persisted configuration (zen_sync_config.json)
    fs,            \* local filesystem: [root, rel] |-> [content, mtime]
    s3,            \* remote store:     full key    |-> [content, mtime, meta]
    now,           \* the clock, integer seconds
    plan,          \* the commands still to be issued, in order
    faults,        \* the kinds of environment fault that can occur
    proc,          \* the running process: configuration, flags, queues, result
    prev,          \* summary of the previous finished run (history)
    pin            \* inputs and outputs of the pure-function specifications

vars == <<config_file, fs, s3, now, plan, faults, proc, prev, pin>>

-----------------------------------------------------------------------------
(* Text helpers                                                            *)

SLASH == "/"
BACKSLASH == "\\"

\* str.startswith
StartsWith(s, pre) ==
    /\ Len(s) >= Len(pre)
    /\ SubSeq(s, 1, Len(pre)) = pre

\* s[n:]
DropChars(s, n) == SubSeq(s, n + 1, Len(s))

\* str.replace('\\', '/')
RECURSIVE ReplaceBackslash(_)
ReplaceBackslash(s) ==
    IF s = <<>> THEN <<>>
    ELSE <<(IF Head(s) = BACKSLASH THEN SLASH ELSE Head(s))>> \o ReplaceBackslash(Tail(s))

\* '/' in s
HasSlash(s) == \E i \in 1..Len(s) : s[i] = SLASH

\* s.split('/')[0]
RECURSIVE FirstSegment(_)
FirstSegment(s) ==
    IF s = <<>> \/ Head(s) = SLASH THEN <<>>
    ELSE <<Head(s)>> \o FirstSegment(Tail(s))

\* s.split('/')
RECURSIVE SplitSlash(_)
SplitSlash(s) ==
    IF ~HasSlash(s) THEN <<s>>
    ELSE <<FirstSegment(s)>> \o SplitSlash(DropChars(s, Len(FirstSegment(s)) + 1))

\* Path.name: the last component
PathName(rel) == SplitSlash(rel)[Len(SplitSlash(rel))]

\* the directory components above the file, outermost first
ParentDirs(rel) == SubSeq(SplitSlash(rel), 1, Len(SplitSlash(rel)) - 1)

\* fnmatch.fnmatch(name, pat) on POSIX: '*' matches any run of characters
\* ('/' included), '?' one character, anything else itself; the whole name
\* must match.  Bracket classes are not used by any pattern of the model.
RECURSIVE fnmatch(_, _)
fnmatch(name, pat) ==
    IF pat = <<>> THEN name = <<>>
    ELSE IF Head(pat) = "*"
         THEN fnmatch(name, Tail(pat)) \/ (name # <<>> /\ fnmatch(Tail(name), pat))
    ELSE IF Head(pat) = "?"
         THEN name # <<>> /\ fnmatch(Tail(name), Tail(pat))
    ELSE name # <<>> /\ Head(name) = Head(pat) /\ fnmatch(Tail(name), Tail(pat))

-----------------------------------------------------------------------------
(* Namespace mapper                                                        *)

\* config.config['aws']['prefix']
prefix == <<"z", "/">>

\* the path_type strings as text
TypeText(path_type) ==
    IF path_type = "roaming" THEN <<"r", "o", "a", "m", "i", "n", "g">>
    ELSE <<"l", "o", "c", "a", "l">>

\* a local path: the root it lives under and the text of its path below it
LocalPath(root, rel) == [root |-> root, rel |-> rel]

NoPath == [root |-> "none", rel |-> <<>>]

\* _get_relative_s3_key for path_type in ['roaming', 'local']
_get_relative_s3_key(rel, path_type) ==
    ReplaceBackslash(TypeText(path_type) \o <<SLASH>> \o rel)

\* _get_s3_key for path_type in ['roaming', 'local']
_get_s3_key(rel, path_type) ==
    ReplaceBackslash(prefix \o TypeText(path_type) \o <<SLASH>> \o rel)

\* _get_download_path; both root Path objects are truthy
_get_download_path(relative_path, sync_cache_data) ==
    IF StartsWith(relative_path, TypeText("roaming") \o <<SLASH>>)
    THEN LocalPath("roaming", DropChars(relative_path, 8))
    ELSE IF StartsWith(relative_path, TypeText("local") \o <<SLASH>>)
    THEN IF sync_cache_data
         THEN LocalPath("local", DropChars(relative_path, 6))
         ELSE NoPath
    ELSE LocalPath("roaming", relative_path)

-----------------------------------------------------------------------------
(* Pattern classifier                                                      *)

\* fnmatch(str_path, pattern) or fnmatch(file_path.name, pattern), for some
\* pattern of the list
MatchesAny(rel, patterns) ==
    \E i \in 1..Len(patterns) :
        \/ fnmatch(ReplaceBackslash(rel), patterns[i])
        \/ fnmatch(PathName(rel), patterns[i])

\* (mutant) the include list is consulted first
ShouldIncludeImportantFirst(rel, exclude_patterns, include_patterns) ==
    IF MatchesAny(rel, include_patterns) THEN TRUE
    ELSE IF MatchesAny(rel, exclude_patterns) THEN FALSE
    ELSE TRUE

\* should_include_file: rel is the path relative to the root; the exclude
\* loop returns False on a match, the include loop True, and the fall
\* through returns True
should_include_file(rel, exclude_patterns, include_patterns) ==
    IF MatchesAny(rel, exclude_patterns) THEN FALSE
    ELSE IF MatchesAny(rel, include_patterns) THEN TRUE
    ELSE TRUE

\* (mutant) every pattern takes part, with or without '/'
DirSkippedAnyPattern(d, exclude_patterns, include_patterns) ==
    LET should_skip ==
            \E i \in 1..Len(exclude_patterns) :
                fnmatch(d, FirstSegment(exclude_patterns[i]))
        has_important_files ==
            \E i \in 1..Len(include_patterns) :
                fnmatch(d, FirstSegment(include_patterns[i]))
    IN should_skip /\ ~has_important_files

\* the pruning decision of _scan_directory for a directory named d
DirSkipped(d, exclude_patterns, include_patterns) ==
    LET should_skip ==
            \E i \in 1..Len(exclude_patterns) :
                /\ HasSlash(exclude_patterns[i])
                /\ fnmatch(d, FirstSegment(exclude_patterns[i]))
        has_important_files ==
            \E i \in 1..Len(include_patterns) :
                /\ HasSlash(include_patterns[i])
                /\ fnmatch(d, FirstSegment(include_patterns[i]))
    IN should_skip /\ ~has_important_files

\* _scan_directory: os.walk reaches a file iff no directory above it was
\* removed from dirs; each reached file is kept iff should_include_file.
\* rels: the files that exist under the root.
_scan_directory(rels, exclude_patterns, include_patterns) ==
    { rel \in rels :
        /\ \A i \in 1..Len(ParentDirs(rel)) :
               ~DirSkipped(ParentDirs(rel)[i], exclude_patterns, include_patterns)
        /\ should_include_file(rel, exclude_patterns, include_patterns) }

-----------------------------------------------------------------------------
(* Identity comparator                                                     *)

\* file contents are opaque; "c1" and "c2" have the same length
Contents == {"c1", "c2", "c3"}

\* stat().st_size
SizeOf(content) == IF content = "c3" THEN 2 ELSE 1

\* calculate_file_hash of a readable file: the md5 hex digest, never empty
calculate_file_hash(content) == <<"md5", content>>

\* None and the empty string: both are falsy
None == <<>>

\* _get_file_info: stat and hash of a local path
_get_file_info(path) ==
    IF path \in DOMAIN fs
    THEN [exists |-> TRUE,
          size   |-> SizeOf(fs[path].content),
          mtime  |-> fs[path].mtime,
          hash   |-> calculate_file_hash(fs[path].content)]
    ELSE [exists |-> FALSE]

\* (mutant) sizes are compared before hashes
FilesAreDifferentSizeFirst(local_info, s3_info) ==
    IF ~local_info.exists \/ ~s3_info.exists THEN TRUE
    ELSE IF local_info.size # s3_info.size THEN TRUE
    ELSE IF local_info.hash # None /\ s3_info.hash # None
         THEN local_info.hash # s3_info.hash
    ELSE FALSE

\* (mutant) a different mtime makes the files different too
FilesAreDifferentOrTouched(local_info, s3_info) ==
    IF ~local_info.exists \/ ~s3_info.exists THEN TRUE
    ELSE IF local_info.hash # None /\ s3_info.hash # None
         THEN local_info.hash # s3_info.hash
    ELSE local_info.size # s3_info.size \/ local_info.mtime # s3_info.mtime

\* _files_are_different
_files_are_different(local_info, s3_info) ==
    IF ~local_info.exists \/ ~s3_info.exists THEN TRUE
    ELSE IF local_info.hash # None /\ s3_info.hash # None
         THEN local_info.hash # s3_info.hash
    ELSE local_info.size # s3_info.size

\* the user metadata _upload_file attaches to an object
Metadata(path_type, mtime, file_hash) ==
    [k \in {"path-type", "original-mtime", "file-hash"} |->
        CASE k = "path-type" -> path_type
          [] k = "original-mtime" -> mtime
          [] k = "file-hash" -> file_hash]

\* an object stored without user metadata
NoMetadata == [k \in {} |-> None]

\* _list_s3_objects: relative key |-> obj_info, for every object under the prefix
_list_s3_objects(disable_metadata) ==
    [relative_key \in { DropChars(key, Len(prefix)) : key \in DOMAIN s3 } |->
        LET obj == s3[prefix \o relative_key]
        IN [size   |-> SizeOf(obj.content),
            mtime  |-> obj.mtime,
            exists |-> TRUE,
            s3_key |-> prefix \o relative_key,
            hash   |-> IF ~disable_metadata /\ "file-hash" \in DOMAIN obj.meta
                       THEN obj.meta["file-hash"]
                       ELSE None]]

\* the characters of keys, in the order of their code points
Alphabet == <<"/", "a", "b", "c", "d", "e", "f", "g", "h", "i", "j", "k", "l", "m",
              "n", "o", "p", "q", "r", "s", "t", "u", "v", "w", "x", "y", "z">>

CodePoint(c) == CHOOSE i \in 1..Len(Alphabet) : Alphabet[i] = c

\* the order in which list_objects_v2 returns keys: k1 comes before k2
RECURSIVE KeyBefore(_, _)
KeyBefore(k1, k2) ==
    IF k2 = <<>> THEN FALSE
    ELSE IF k1 = <<>> THEN TRUE
    ELSE IF Head(k1) # Head(k2) THEN CodePoint(Head(k1)) < CodePoint(Head(k2))
    ELSE KeyBefore(Tail(k1), Tail(k2))

\* what _list_s3_objects can return: every object, or, when a page request
\* raises, the objects of the pages before it (the exception is caught and
\* the dictionary built so far is returned); a page holds one key here
Listings(disable_metadata) ==
    LET objects == _list_s3_objects(disable_metadata)
        FirstPages(n) ==
            { k \in DOMAIN objects :
                Cardinality({ j \in DOMAIN objects : KeyBefore(j, k) }) < n }
    IN {objects} \cup
       (IF "list" \in faults
        THEN { [k \in FirstPages(n) |-> objects[k]] :
                 n \in 0..(Cardinality(DOMAIN objects) - 1) }
        ELSE {})

-----------------------------------------------------------------------------
(* Reconciliation engine: the three analyses                               *)

\* the files that exist under a root, as paths relative to it
RelsUnder(root) == { path.rel : path \in { q \in DOMAIN fs : q.root = root } }

\* get_local_files: the roaming root always, the local root when cache sync
\* is on; both root directories exist.  A scanned file is (file_path,
\* base_path, path_type), and its base path is the root of its path type.
get_local_files(cfg) ==
    { LocalPath("roaming", rel) :
        rel \in _scan_directory(RelsUnder("roaming"),
                                cfg.exclude_patterns, cfg.include_patterns) }
    \cup
    (IF cfg.sync_cache_data
     THEN { LocalPath("local", rel) :
              rel \in _scan_directory(RelsUnder("local"),
                                      cfg.exclude_patterns, cfg.include_patterns) }
     ELSE {})

\* (mutant) the key of an upload carries no role segment
UploadItemBareKey(f, s3_key) ==
    [kind |-> "upload", file_path |-> f, s3_key |-> prefix \o f.rel,
     size |-> _get_file_info(f).size, path_type |-> f.root]

UploadItem(f, s3_key) ==
    [kind |-> "upload", file_path |-> f, s3_key |-> s3_key,
     size |-> _get_file_info(f).size, path_type |-> f.root]

DownloadItem(local_path, s3_info, relative_key) ==
    [kind |-> "download", local_path |-> local_path, s3_key |-> s3_info.s3_key,
     size |-> s3_info.size, relative_key |-> relative_key]

\* local_info['size'] / local_info['mtime'] of a record that has only
\* 'exists': the analyses of push and bidirectional raise KeyError as soon
\* as one scanned file can no longer be stat'ed
AnalysisRaisesKeyError(files) == \E f \in files : ~_get_file_info(f).exists

\* (mutant) cleanup keeps only the objects of the files it uploads
AnalyzeUploadDeletingSkipped(files, s3_objects, incremental, cleanup) ==
    LET Skipped(f) ==
            /\ incremental
            /\ _get_relative_s3_key(f.rel, f.root) \in DOMAIN s3_objects
            /\ ~_files_are_different(_get_file_info(f),
                                     s3_objects[_get_relative_s3_key(f.rel, f.root)])
        local_s3_keys == { _get_relative_s3_key(f.rel, f.root) :
                             f \in { g \in files : ~Skipped(g) } }
    IN [files_to_upload |->
            { UploadItem(f, _get_s3_key(f.rel, f.root)) : f \in { g \in files : ~Skipped(g) } },
        files_to_download |-> {},
        files_to_skip |->
            { [id |-> f, size |-> _get_file_info(f).size] : f \in { g \in files : Skipped(g) } },
        files_to_delete |->
            IF cleanup
            THEN { [kind |-> "delete", relative_key |-> k,
                    s3_key |-> s3_objects[k].s3_key, size |-> s3_objects[k].size] :
                   k \in { j \in DOMAIN s3_objects : j \notin local_s3_keys } }
            ELSE {}]

\* (mutant) an incremental push skips every file the listing holds
AnalyzeUploadSkippingListed(files, s3_objects, incremental, cleanup) ==
    LET Skipped(f) ==
            /\ incremental
            /\ _get_relative_s3_key(f.rel, f.root) \in DOMAIN s3_objects
        local_s3_keys == { _get_relative_s3_key(f.rel, f.root) : f \in files }
    IN [files_to_upload |->
            { UploadItem(f, _get_s3_key(f.rel, f.root)) : f \in { g \in files : ~Skipped(g) } },
        files_to_download |-> {},
        files_to_skip |->
            { [id |-> f, size |-> _get_file_info(f).size] : f \in { g \in files : Skipped(g) } },
        files_to_delete |->
            IF cleanup
            THEN { [kind |-> "delete", relative_key |-> k,
                    s3_key |-> s3_objects[k].s3_key, size |-> s3_objects[k].size] :
                   k \in { j \in DOMAIN s3_objects : j \notin local_s3_keys } }
            ELSE {}]

\* _analyze_upload_files (defined when it does not raise)
_analyze_upload_files(files, s3_objects, incremental, cleanup) ==
    LET Skipped(f) ==
            /\ incremental
            /\ _get_relative_s3_key(f.rel, f.root) \in DOMAIN s3_objects
            /\ ~_files_are_different(_get_file_info(f),
                                     s3_objects[_get_relative_s3_key(f.rel, f.root)])
        local_s3_keys == { _get_relative_s3_key(f.rel, f.root) : f \in files }
    IN [files_to_upload |->
            { UploadItem(f, _get_s3_key(f.rel, f.root)) : f \in { g \in files : ~Skipped(g) } },
        files_to_download |-> {},
        files_to_skip |->
            { [id |-> f, size |-> _get_file_info(f).size] : f \in { g \in files : Skipped(g) } },
        files_to_delete |->
            IF cleanup
            THEN { [kind |-> "delete", relative_key |-> k,
                    s3_key |-> s3_objects[k].s3_key, size |-> s3_objects[k].size] :
                   k \in { j \in DOMAIN s3_objects : j \notin local_s3_keys } }
            ELSE {}]

\* (mutant) an incremental pull skips every object whose file exists
AnalyzeDownloadSkippingExisting(s3_objects, incremental, cleanup, cfg) ==
    LET Mapped == { k \in DOMAIN s3_objects :
                      _get_download_path(k, cfg.sync_cache_data) # NoPath }
        Skipped(k) ==
            LET local_info == _get_file_info(_get_download_path(k, cfg.sync_cache_data))
            IN /\ incremental
               /\ local_info.exists
    IN [files_to_upload |-> {},
        files_to_download |->
            { DownloadItem(_get_download_path(k, cfg.sync_cache_data), s3_objects[k], k) :
                k \in { j \in Mapped : ~Skipped(j) } },
        files_to_skip |->
            { [id |-> _get_download_path(k, cfg.sync_cache_data), size |-> s3_objects[k].size] :
                k \in { j \in Mapped : Skipped(j) } },
        files_to_delete |->
            IF cleanup
            THEN { [kind |-> "unlink", file_path |-> f,
                    relative_key |-> _get_relative_s3_key(f.rel, f.root),
                    size |-> _get_file_info(f).size] :
                   f \in { g \in get_local_files(cfg) :
                             /\ _get_relative_s3_key(g.rel, g.root) \notin DOMAIN s3_objects
                             /\ _get_file_info(g).exists } }
            ELSE {}]

\* (mutant) cleanup goes over every file under the roots, scanned or not
AnalyzeDownloadDeletingUnscanned(s3_objects, incremental, cleanup, cfg) ==
    LET Mapped == { k \in DOMAIN s3_objects :
                      _get_download_path(k, cfg.sync_cache_data) # NoPath }
        Skipped(k) ==
            LET local_info == _get_file_info(_get_download_path(k, cfg.sync_cache_data))
            IN /\ incremental
               /\ local_info.exists
               /\ ~_files_are_different(local_info, s3_objects[k])
    IN [files_to_upload |-> {},
        files_to_download |->
            { DownloadItem(_get_download_path(k, cfg.sync_cache_data), s3_objects[k], k) :
                k \in { j \in Mapped : ~Skipped(j) } },
        files_to_skip |->
            { [id |-> _get_download_path(k, cfg.sync_cache_data), size |-> s3_objects[k].size] :
                k \in { j \in Mapped : Skipped(j) } },
        files_to_delete |->
            IF cleanup
            THEN { [kind |-> "unlink", file_path |-> f,
                    relative_key |-> _get_relative_s3_key(f.rel, f.root),
                    size |-> _get_file_info(f).size] :
                   f \in { g \in DOMAIN fs :
                             _get_relative_s3_key(g.rel, g.root) \notin DOMAIN s3_objects } }
            ELSE {}]

\* _analyze_download_files
_analyze_download_files(s3_objects, incremental, cleanup, cfg) ==
    LET Mapped == { k \in DOMAIN s3_objects :
                      _get_download_path(k, cfg.sync_cache_data) # NoPath }
        Skipped(k) ==
            LET local_info == _get_file_info(_get_download_path(k, cfg.sync_cache_data))
            IN /\ incremental
               /\ local_info.exists
               /\ ~_files_are_different(local_info, s3_objects[k])
    IN [files_to_upload |-> {},
        files_to_download |->
            { DownloadItem(_get_download_path(k, cfg.sync_cache_data), s3_objects[k], k) :
                k \in { j \in Mapped : ~Skipped(j) } },
        files_to_skip |->
            { [id |-> _get_download_path(k, cfg.sync_cache_data), size |-> s3_objects[k].size] :
                k \in { j \in Mapped : Skipped(j) } },
        files_to_delete |->
            IF cleanup
            THEN { [kind |-> "unlink", file_path |-> f,
                    relative_key |-> _get_relative_s3_key(f.rel, f.root),
                    size |-> _get_file_info(f).size] :
                   f \in { g \in get_local_files(cfg) :
                             /\ _get_relative_s3_key(g.rel, g.root) \notin DOMAIN s3_objects
                             /\ _get_file_info(g).exists } }
            ELSE {}]

\* (mutant) the tie goes to the local side
LocalIsNewerOrSame(local_info, s3_info) == local_info.mtime >= s3_info.mtime

\* the conflict rule of _analyze_bidirectional_sync: local strictly newer
LocalIsNewer(local_info, s3_info) == local_info.mtime > s3_info.mtime

\* the local_lookup dictionary sync_bidirectional builds from the scan
LocalLookup(files) ==
    [k \in { _get_relative_s3_key(f.rel, f.root) : f \in files } |->
        LET f == CHOOSE g \in files : _get_relative_s3_key(g.rel, g.root) = k
        IN [path |-> f, info |-> _get_file_info(f), path_type |-> f.root]]

\* (mutant) objects without a local file are left alone
AnalyzeBidirectionalLocalOnly(local_lookup, s3_objects, cfg) ==
    LET Both == DOMAIN local_lookup \cap DOMAIN s3_objects
        Differ == { k \in Both :
                      _files_are_different(local_lookup[k].info, s3_objects[k]) }
        LocalNewer(k) == LocalIsNewer(local_lookup[k].info, s3_objects[k])
        OnlyLocal == DOMAIN local_lookup \ DOMAIN s3_objects
    IN [files_to_upload |->
            { UploadItem(local_lookup[k].path, s3_objects[k].s3_key) :
                k \in { j \in Differ : LocalNewer(j) } }
            \cup
            { UploadItem(local_lookup[k].path,
                         _get_s3_key(local_lookup[k].path.rel, local_lookup[k].path_type)) :
                k \in OnlyLocal },
        files_to_download |->
            { DownloadItem(local_lookup[k].path, s3_objects[k], k) :
                k \in { j \in Differ : ~LocalNewer(j) } },
        files_to_skip |->
            { [id |-> k, size |-> local_lookup[k].info.size] : k \in Both \ Differ },
        files_to_delete |-> {}]

\* _analyze_bidirectional_sync (defined when it does not raise)
_analyze_bidirectional_sync(local_lookup, s3_objects, cfg) ==
    LET Both == DOMAIN local_lookup \cap DOMAIN s3_objects
        Differ == { k \in Both :
                      _files_are_different(local_lookup[k].info, s3_objects[k]) }
        LocalNewer(k) == LocalIsNewer(local_lookup[k].info, s3_objects[k])
        OnlyLocal == DOMAIN local_lookup \ DOMAIN s3_objects
        OnlyRemote == DOMAIN s3_objects \ DOMAIN local_lookup
    IN [files_to_upload |->
            { UploadItem(local_lookup[k].path, s3_objects[k].s3_key) :
                k \in { j \in Differ : LocalNewer(j) } }
            \cup
            { UploadItem(local_lookup[k].path,
                         _get_s3_key(local_lookup[k].path.rel, local_lookup[k].path_type)) :
                k \in OnlyLocal },
        files_to_download |->
            { DownloadItem(local_lookup[k].path, s3_objects[k], k) :
                k \in { j \in Differ : ~LocalNewer(j) } }
            \cup
            { DownloadItem(_get_download_path(k, cfg.sync_cache_data), s3_objects[k], k) :
                k \in { j \in OnlyRemote :
                          _get_download_path(j, cfg.sync_cache_data) # NoPath } },
        files_to_skip |->
            { [id |-> k, size |-> local_lookup[k].info.size] : k \in Both \ Differ },
        files_to_delete |-> {}]

-----------------------------------------------------------------------------
(* Action executor: what one call of each processor function can do        *)

\* (mutant) the store keeps the object a key already has
PutObjectIfAbsent(s3_key, content, meta) ==
    [k \in DOMAIN s3 \cup {s3_key} |->
        IF k \in DOMAIN s3 THEN s3[k]
        ELSE [content |-> content, mtime |-> now, meta |-> meta]]

\* the store after put_object(Key, Body, Metadata): the object replaces the
\* one the key had, and LastModified is the time of the call
PutObject(s3_key, content, meta) ==
    [k \in DOMAIN s3 \cup {s3_key} |->
        IF k = s3_key THEN [content |-> content, mtime |-> now, meta |-> meta]
        ELSE s3[k]]

\* an outcome of a processor call: the state it leaves, whether it raised,
\* and the put_object calls it made: "meta" with Metadata=, "plain" without
Outcome(raised, new_s3, new_fs, new_cfg, new_config_file, puts) ==
    [raised |-> raised, s3 |-> new_s3, fs |-> new_fs,
     cfg |-> new_cfg, config_file |-> new_config_file, puts |-> puts]

\* the call raised after these put_object calls; nothing was stored
RaisedAfter(cfg, puts) == Outcome(TRUE, s3, fs, cfg, config_file, puts)

Raised(cfg) == RaisedAfter(cfg, <<>>)

\* (mutant) the fallback leaves the flag as it was
MetadataLeftEnabled(cfg) == cfg

\* self.config.config['aws']['disable_metadata'] = True
AutoDisabled(cfg) == [cfg EXCEPT !.disable_metadata = TRUE]

\* _upload_file: every outcome the call can have.  A store that does not
\* take user metadata ("nometa") answers a metadata-bearing put with a
\* signature error; any put can fail for another reason ("op").
_upload_file(cfg, item) ==
    IF item.file_path \notin DOMAIN fs
    THEN { Raised(cfg) }
    ELSE
    LET file == fs[item.file_path]
        metadata == Metadata(item.path_type, file.mtime, calculate_file_hash(file.content))
        disabled == AutoDisabled(cfg)
        fallback == <<"meta", "plain">>
    IN IF ~cfg.disable_metadata
       THEN (IF "nometa" \in faults
             THEN { Outcome(FALSE, PutObject(item.s3_key, file.content, NoMetadata),
                            fs, disabled, disabled, fallback) }
                  \cup (IF "save" \in faults
                        THEN { Outcome(FALSE, PutObject(item.s3_key, file.content, NoMetadata),
                                       fs, disabled, config_file, fallback) }
                        ELSE {})
                  \cup (IF "op" \in faults THEN { RaisedAfter(cfg, fallback) } ELSE {})
             ELSE { Outcome(FALSE, PutObject(item.s3_key, file.content, metadata),
                            fs, cfg, config_file, <<"meta">>) })
            \cup (IF "op" \in faults THEN { RaisedAfter(cfg, <<"meta">>) } ELSE {})
       ELSE { Outcome(FALSE, PutObject(item.s3_key, file.content, NoMetadata),
                      fs, cfg, config_file, <<"plain">>) }
            \cup (IF "op" \in faults THEN { RaisedAfter(cfg, <<"plain">>) } ELSE {})

\* the mtime _download_file leaves on the file: the original-mtime of the
\* metadata when it is there, metadata is not disabled and it is not 0
RestoredMtime(cfg, obj) ==
    IF /\ ~cfg.disable_metadata
       /\ "original-mtime" \in DOMAIN obj.meta
       /\ obj.meta["original-mtime"] # 0
    THEN obj.meta["original-mtime"]
    ELSE now

\* (mutant) a download moves the object: it is removed from the store
DownloadFileMoving(cfg, item) ==
    IF item.s3_key \notin DOMAIN s3
    THEN { Raised(cfg) }
    ELSE { Outcome(FALSE, [k \in DOMAIN s3 \ {item.s3_key} |-> s3[k]],
                   [q \in DOMAIN fs \cup {item.local_path} |->
                       IF q = item.local_path
                       THEN [content |-> s3[item.s3_key].content,
                             mtime |-> RestoredMtime(cfg, s3[item.s3_key])]
                       ELSE fs[q]],
                   cfg, config_file, <<>>) }
         \cup (IF "op" \in faults THEN { Raised(cfg) } ELSE {})

\* _download_file
_download_file(cfg, item) ==
    IF item.s3_key \notin DOMAIN s3
    THEN { Raised(cfg) }
    ELSE { Outcome(FALSE, s3,
                   [q \in DOMAIN fs \cup {item.local_path} |->
                       IF q = item.local_path
                       THEN [content |-> s3[item.s3_key].content,
                             mtime |-> RestoredMtime(cfg, s3[item.s3_key])]
                       ELSE fs[q]],
                   cfg, config_file, <<>>) }
         \cup (IF "op" \in faults THEN { Raised(cfg) } ELSE {})

\* _delete_s3_file
_delete_s3_file(cfg, item) ==
    { Outcome(FALSE, [k \in DOMAIN s3 \ {item.s3_key} |-> s3[k]], fs, cfg, config_file, <<>>) }
    \cup (IF "op" \in faults THEN { Raised(cfg) } ELSE {})

\* _delete_local_file
_delete_local_file(cfg, item) ==
    IF item.file_path \notin DOMAIN fs
    THEN { Raised(cfg) }
    ELSE { Outcome(FALSE, s3, [q \in DOMAIN fs \ {item.file_path} |-> fs[q]],
                   cfg, config_file, <<>>) }
         \cup (IF "op" \in faults THEN { Raised(cfg) } ELSE {})

-----------------------------------------------------------------------------
(* The command-line process: run_cli and the three mode-level calls        *)

Procs == {"p1", "p2"}

\* the last second the clock of the store reaches while runs are under way
MaxClock == 6

NoArgs == [command |-> "none", dry_run |-> FALSE, incremental |-> FALSE,
           cleanup |-> FALSE, no_cache |-> FALSE]

\* a process that has not been started
IdleProc ==
    [pc |-> "idle", args |-> NoArgs, config |-> config_file,
     files |-> {}, s3_objects |-> <<>>,
     files_to_upload |-> {}, files_to_download |-> {},
     files_to_skip |-> {}, files_to_delete |-> {},
     visited |-> {}, called |-> {}, failed |-> {},
     puts |-> {}, fell_back |-> FALSE,
     result |-> "none", exit |-> "none",
     at_start |-> [fs |-> fs, s3 |-> s3, config_file |-> config_file]]

\* the process leaves its mode-level call with this result; run_cli maps it
\* to the exit status: sys.exit(0 if success else 1), and 1 for an exception
Returned(q, result) ==
    [q EXCEPT !.pc = "done", !.result = result,
              !.exit = IF result = "True" THEN 0 ELSE 1]

Queued(q, a) ==
    [q EXCEPT !.pc = "process",
              !.files_to_upload = a.files_to_upload,
              !.files_to_download = a.files_to_download,
              !.files_to_skip = a.files_to_skip,
              !.files_to_delete = a.files_to_delete]

\* (mutant) an empty scan does not end the push
NoFilesFoundIgnored(args, files) == FALSE

\* upload_to_s3: "if not files: ... return False"
NoFilesFound(args, files) == args.command = "upload" /\ files = {}

\* run_cli up to the mode-level call, and the scan that opens upload_to_s3
\* and sync_bidirectional
Start(p) ==
    /\ proc[p].pc \in {"idle", "done"}
    /\ plan[p] # <<>>
    /\ LET args == Head(plan[p])
           cfg == [config_file EXCEPT
                      !.sync_cache_data = IF args.no_cache THEN FALSE ELSE @]
           files == IF args.command \in {"upload", "sync"}
                    THEN get_local_files(cfg) ELSE {}
           q == [IdleProc EXCEPT !.pc = "analyze", !.args = args,
                                 !.config = cfg, !.files = files]
       IN /\ proc' = [proc EXCEPT ![p] =
                        IF NoFilesFound(args, files)
                        THEN Returned(q, "False")
                        ELSE q]
          /\ prev' = [prev EXCEPT ![p] = proc[p]]
    /\ plan' = [plan EXCEPT ![p] = Tail(@)]
    /\ now' = now + 1
    /\ UNCHANGED <<config_file, fs, s3, faults, pin>>

\* upload_to_s3 from the listing to the "up to date" return
AnalyzeUpload(p) ==
    /\ proc[p].pc = "analyze"
    /\ proc[p].args.command = "upload"
    /\ \E s3_objects \in IF proc[p].args.incremental \/ proc[p].args.cleanup
                         THEN Listings(proc[p].config.disable_metadata)
                         ELSE { <<>> } :
       LET q == proc[p]
           a == _analyze_upload_files(q.files, s3_objects,
                                      q.args.incremental, q.args.cleanup)
           listed == [q EXCEPT !.s3_objects = s3_objects]
       IN proc' = [proc EXCEPT ![p] =
                     IF AnalysisRaisesKeyError(q.files)
                     THEN Returned(listed, "KeyError")
                     ELSE IF a.files_to_upload = {} /\ a.files_to_delete = {}
                     THEN Returned(Queued(listed, a), "True")
                     ELSE Queued(listed, a)]
    /\ UNCHANGED <<config_file, fs, s3, now, plan, faults, prev, pin>>

\* download_from_s3 from the listing to the "up to date" return
AnalyzeDownload(p) ==
    /\ proc[p].pc = "analyze"
    /\ proc[p].args.command = "download"
    /\ \E s3_objects \in Listings(proc[p].config.disable_metadata) :
       LET q == proc[p]
           a == _analyze_download_files(s3_objects, q.args.incremental,
                                        q.args.cleanup, q.config)
           listed == [q EXCEPT !.s3_objects = s3_objects]
       IN proc' = [proc EXCEPT ![p] =
                     IF DOMAIN s3_objects = {}
                     THEN Returned(listed, "False")
                     ELSE IF a.files_to_download = {} /\ a.files_to_delete = {}
                     THEN Returned(Queued(listed, a), "True")
                     ELSE Queued(listed, a)]
    /\ UNCHANGED <<config_file, fs, s3, now, plan, faults, prev, pin>>

\* (mutant) with cleanup, objects without a local file are not fetched
AnalyzeSyncWithCleanup(p) ==
    /\ proc[p].pc = "analyze"
    /\ proc[p].args.command = "sync"
    /\ LET q == proc[p]
           s3_objects == _list_s3_objects(q.config.disable_metadata)
           a == IF q.args.cleanup
                THEN AnalyzeBidirectionalLocalOnly(LocalLookup(q.files), s3_objects, q.config)
                ELSE _analyze_bidirectional_sync(LocalLookup(q.files), s3_objects, q.config)
           listed == [q EXCEPT !.s3_objects = s3_objects]
       IN proc' = [proc EXCEPT ![p] =
                     IF AnalysisRaisesKeyError(q.files)
                     THEN Returned(listed, "KeyError")
                     ELSE IF a.files_to_upload = {} /\ a.files_to_download = {}
                     THEN Returned(Queued(listed, a), "True")
                     ELSE Queued(listed, a)]
    /\ UNCHANGED <<config_file, fs, s3, now, plan, faults, prev, pin>>

\* sync_bidirectional from the listing to the "in sync" return
AnalyzeSync(p) ==
    /\ proc[p].pc = "analyze"
    /\ proc[p].args.command = "sync"
    /\ \E s3_objects \in Listings(proc[p].config.disable_metadata) :
       LET q == proc[p]
           a == _analyze_bidirectional_sync(LocalLookup(q.files), s3_objects, q.config)
           listed == [q EXCEPT !.s3_objects = s3_objects]
       IN proc' = [proc EXCEPT ![p] =
                     IF AnalysisRaisesKeyError(q.files)
                     THEN Returned(listed, "KeyError")
                     ELSE IF a.files_to_upload = {} /\ a.files_to_download = {}
                     THEN Returned(Queued(listed, a), "True")
                     ELSE Queued(listed, a)]
    /\ UNCHANGED <<config_file, fs, s3, now, plan, faults, prev, pin>>

\* the retry of _upload_file went through: the call made a put with
\* metadata, then one without, and did not raise
FellBack(o) == ~o.raised /\ o.puts = <<"meta", "plain">>

\* the record of the put_object calls of one processor call: the key, the
\* calls in order, the time of the call, and whether an earlier call of the
\* run had fallen back
PutsOf(p, item, o) ==
    IF o.puts = <<>> THEN {}
    ELSE { [s3_key |-> item.s3_key, attempts |-> o.puts, at |-> now,
            after_fallback |-> proc[p].fell_back] }

\* (mutant) the processor is called in a dry run too
ProcessOneIgnoringDryRun(p, item, outcomes) ==
    \E o \in outcomes :
        /\ proc' = [proc EXCEPT ![p].visited = @ \cup {item},
                                ![p].called = @ \cup {item},
                                ![p].failed = IF o.raised THEN @ \cup {item} ELSE @,
                                ![p].puts = @ \cup PutsOf(p, item, o),
                                ![p].fell_back = @ \/ FellBack(o),
                                ![p].config = o.cfg]
        /\ s3' = o.s3
        /\ fs' = o.fs
        /\ config_file' = o.config_file

\* (mutant) the first exception ends the run
ProcessOneFailFast(p, item, outcomes) ==
    IF proc[p].args.dry_run
    THEN /\ proc' = [proc EXCEPT ![p].visited = @ \cup {item}]
         /\ UNCHANGED <<config_file, fs, s3>>
    ELSE \E o \in outcomes :
            /\ proc' = [proc EXCEPT ![p] =
                          LET q == [@ EXCEPT !.visited = @ \cup {item},
                                             !.called = @ \cup {item},
                                             !.failed = IF o.raised THEN @ \cup {item} ELSE @,
                                             !.puts = @ \cup PutsOf(p, item, o),
                                             !.fell_back = @ \/ FellBack(o),
                                             !.config = o.cfg]
                          IN IF o.raised THEN Returned(q, "False") ELSE q]
            /\ s3' = o.s3
            /\ fs' = o.fs
            /\ config_file' = o.config_file

\* one iteration of the loop of _process_files: the processor is called
\* unless dry_run, and an exception it raises is caught and counted
ProcessOne(p, item, outcomes) ==
    IF proc[p].args.dry_run
    THEN /\ proc' = [proc EXCEPT ![p].visited = @ \cup {item}]
         /\ UNCHANGED <<config_file, fs, s3>>
    ELSE \E o \in outcomes :
            /\ proc' = [proc EXCEPT ![p].visited = @ \cup {item},
                                    ![p].called = @ \cup {item},
                                    ![p].failed = IF o.raised THEN @ \cup {item} ELSE @,
                                    ![p].puts = @ \cup PutsOf(p, item, o),
                                    ![p].fell_back = @ \/ FellBack(o),
                                    ![p].config = o.cfg]
            /\ s3' = o.s3
            /\ fs' = o.fs
            /\ config_file' = o.config_file

Remaining(p, list) == proc[p][list] \ proc[p].visited

\* _process_files(files_to_upload, "uploading", ...)
UploadStep(p) ==
    /\ proc[p].pc = "process"
    /\ proc[p].args.command \in {"upload", "sync"}
    /\ \E item \in Remaining(p, "files_to_upload") :
          ProcessOne(p, item, _upload_file(proc[p].config, item))
    /\ UNCHANGED <<now, plan, faults, prev, pin>>

\* _process_files(files_to_download, "downloading", ...); in
\* sync_bidirectional it follows the uploads
DownloadStep(p) ==
    /\ proc[p].pc = "process"
    /\ proc[p].args.command \in {"download", "sync"}
    /\ Remaining(p, "files_to_upload") = {}
    /\ \E item \in Remaining(p, "files_to_download") :
          ProcessOne(p, item, _download_file(proc[p].config, item))
    /\ UNCHANGED <<now, plan, faults, prev, pin>>

\* upload_to_s3: if cleanup and files_to_delete, after the uploads
DeleteRemoteStep(p) ==
    /\ proc[p].pc = "process"
    /\ proc[p].args.command = "upload"
    /\ proc[p].args.cleanup
    /\ Remaining(p, "files_to_upload") = {}
    /\ \E item \in Remaining(p, "files_to_delete") :
          ProcessOne(p, item, _delete_s3_file(proc[p].config, item))
    /\ UNCHANGED <<now, plan, faults, prev, pin>>

\* download_from_s3: if cleanup and files_to_delete, after the downloads
DeleteLocalStep(p) ==
    /\ proc[p].pc = "process"
    /\ proc[p].args.command = "download"
    /\ proc[p].args.cleanup
    /\ Remaining(p, "files_to_download") = {}
    /\ \E item \in Remaining(p, "files_to_delete") :
          ProcessOne(p, item, _delete_local_file(proc[p].config, item))
    /\ UNCHANGED <<now, plan, faults, prev, pin>>

\* (mutant) only the first list's result is returned
FirstListSucceeded(q) ==
    q.failed \cap (IF q.args.command = "download"
                   THEN q.files_to_download ELSE q.files_to_upload) = {}

\* error_count == 0 of every _process_files call of the run
AllSucceeded(q) == q.failed = {}

\* the return of the mode-level call and the exit of run_cli
Finish(p) ==
    /\ proc[p].pc = "process"
    /\ Remaining(p, "files_to_upload") = {}
    /\ Remaining(p, "files_to_download") = {}
    /\ Remaining(p, "files_to_delete") = {}
    /\ proc' = [proc EXCEPT ![p] =
                  Returned(@, IF AllSucceeded(@) THEN "True" ELSE "False")]
    /\ UNCHANGED <<config_file, fs, s3, now, plan, faults, prev, pin>>

\* another program removes a local file while a run is under way
FileVanishes ==
    /\ "vanish" \in faults
    /\ \E p \in Procs : proc[p].pc \in {"analyze", "process"}
    /\ \E path \in DOMAIN fs : fs' = [q \in DOMAIN fs \ {path} |-> fs[q]]
    /\ UNCHANGED <<config_file, s3, now, plan, faults, proc, prev, pin>>

\* the clock of the store advances while a run is under way
TimePasses ==
    /\ now < MaxClock
    /\ \E p \in Procs : proc[p].pc \in {"analyze", "process"}
    /\ now' = now + 1
    /\ UNCHANGED <<config_file, fs, s3, plan, faults, proc, prev, pin>>

\* the process is killed between two queued actions of a run that another
\* run follows
Interrupt(p) ==
    /\ "crash" \in faults
    /\ proc[p].pc = "process"
    /\ plan[p] # <<>>
    /\ proc' = [proc EXCEPT ![p].pc = "done", ![p].result = "interrupted"]
    /\ UNCHANGED <<config_file, fs, s3, now, plan, faults, prev, pin>>

-----------------------------------------------------------------------------
(* Initial states and specifications                                       *)

\* the files and keys of the model: a plain file, a file in a directory
\* that the exclude pattern c/* covers, and a file of the local root
FileA == <<"a">>
FileCD == <<"c", "/", "d">>

LocalUniverse ==
    { LocalPath("roaming", FileA), LocalPath("roaming", FileCD), LocalPath("local", FileA) }

KeyUniverse == { _get_s3_key(path.rel, path.root) : path \in LocalUniverse }

\* exclude_patterns and include_important of the configuration
ExcludePatterns == << <<"c", "/", "*">> >>
IncludePatterns == << <<"a">> >>

Configs ==
    [sync_cache_data : BOOLEAN, disable_metadata : BOOLEAN,
     exclude_patterns : {ExcludePatterns}, include_patterns : {IncludePatterns}]

\* local files start with content "c1", last modified at second 2
LocalStates ==
    UNION { [S -> {[content |-> "c1", mtime |-> 2]}] : S \in SUBSET LocalUniverse }

\* an object this program wrote earlier: with the metadata of its source
\* file, or without any
ObjectsWritten(path_type, contents, mtimes) ==
    { [content |-> c, mtime |-> t, meta |-> m] :
        c \in contents, t \in mtimes,
        m \in {NoMetadata} } \cup
    { [content |-> c, mtime |-> t,
       meta |-> Metadata(path_type, 1, calculate_file_hash(c))] :
        c \in contents, t \in mtimes }

\* the object under roaming/a varies in content, age and metadata; the
\* other two keys hold, when present, one object that differs in size
InitialObjects(key) ==
    IF key = _get_s3_key(FileA, "roaming")
    THEN ObjectsWritten("roaming", Contents, {1, 2})
    ELSE { [content |-> "c3", mtime |-> 2, meta |-> NoMetadata] }

RemoteStates ==
    UNION { { f \in [S -> UNION { InitialObjects(k) : k \in KeyUniverse }] :
                \A k \in S : f[k] \in InitialObjects(k) } :
            S \in SUBSET KeyUniverse }

\* the command lines of run_cli
Commands ==
    [command : {"upload", "download"}, dry_run : BOOLEAN, incremental : BOOLEAN,
     cleanup : BOOLEAN, no_cache : BOOLEAN]
    \cup
    [command : {"sync"}, dry_run : BOOLEAN, incremental : {TRUE},
     cleanup : BOOLEAN, no_cache : BOOLEAN]

\* everything but the plan and the faults
InitWorld ==
    /\ config_file \in Configs
    /\ fs \in LocalStates
    /\ s3 \in RemoteStates
    /\ now = 3
    /\ proc = [p \in Procs |-> IdleProc]
    /\ prev = [p \in Procs |-> IdleProc]
    /\ pin = <<>>

\* one command, of any mode; processor calls can fail
Init ==
    /\ InitWorld
    /\ faults = {"op"}
    /\ \E cmd \in Commands :
          /\ cmd.no_cache => config_file.sync_cache_data
          /\ plan = [p \in Procs |-> IF p = "p1" THEN <<cmd>> ELSE <<>>]

Next ==
    \E p \in Procs :
        \/ Start(p)
        \/ AnalyzeUpload(p)
        \/ AnalyzeDownload(p)
        \/ AnalyzeSync(p)
        \/ UploadStep(p)
        \/ DownloadStep(p)
        \/ DeleteRemoteStep(p)
        \/ DeleteLocalStep(p)
        \/ Finish(p)

Spec == Init /\ [][Next]_vars

-----------------------------------------------------------------------------
(* Properties                                                              *)

\* the run of p has its action lists and has not touched anything yet
JustAnalysed(p) ==
    /\ proc[p].pc = "process"
    /\ proc[p].visited = {}

\* the run of p went through its action lists to the end
RanToEnd(p) ==
    /\ proc[p].pc = "done"
    /\ proc[p].result \in {"True", "False"}
    /\ proc[p].files_to_upload \cup proc[p].files_to_download
         \cup proc[p].files_to_delete # {}

UploadKeys(p) == { item.s3_key : item \in proc[p].files_to_upload }

\* the files a run queued for upload
UploadedFiles(p) == { item.file_path : item \in proc[p].files_to_upload }
DownloadKeys(p) == { item.s3_key : item \in proc[p].files_to_download }
SkipIds(p) == { item.id : item \in proc[p].files_to_skip }

\* the keys a bidirectional run finds on both sides and different
ConflictKeys(p) ==
    { k \in DOMAIN proc[p].s3_objects :
        \E f \in proc[p].files :
            /\ _get_relative_s3_key(f.rel, f.root) = k
            /\ _files_are_different(_get_file_info(f), proc[p].s3_objects[k]) }

LocalMtimeOf(p, k) ==
    LET f == CHOOSE g \in proc[p].files : _get_relative_s3_key(g.rel, g.root) = k
    IN fs[f].mtime

\* C3: in a bidirectional run every key present on both sides that the
\* comparator reports different is uploaded when the local mtime is
\* strictly greater than the remote mtime and downloaded otherwise (equal
\* mtimes included); it is never both, and never skipped.
C3_BidirectionalByMtime ==
    \A p \in Procs :
        (proc[p].args.command = "sync" /\ JustAnalysed(p)) =>
            \A k \in ConflictKeys(p) :
                /\ k \notin SkipIds(p)
                /\ IF LocalMtimeOf(p, k) > proc[p].s3_objects[k].mtime
                   THEN prefix \o k \in UploadKeys(p) /\ prefix \o k \notin DownloadKeys(p)
                   ELSE prefix \o k \in DownloadKeys(p) /\ prefix \o k \notin UploadKeys(p)

\* C3 witness: a conflict with equal mtimes, resolved as a download
C3_Witness ==
    \E p \in Procs :
        /\ proc[p].args.command = "sync"
        /\ JustAnalysed(p)
        /\ \E k \in ConflictKeys(p) :
              /\ LocalMtimeOf(p, k) = proc[p].s3_objects[k].mtime
              /\ prefix \o k \in DownloadKeys(p)

\* C4: with cache sync disabled, no run of any mode queues an object whose
\* relative key starts with local/ for download or for deletion.
C4_LocalKeysIgnored ==
    \A p \in Procs :
        ~proc[p].config.sync_cache_data =>
            \A item \in proc[p].files_to_download \cup proc[p].files_to_delete :
                ~StartsWith(item.relative_key, TypeText("local") \o <<SLASH>>)

\* C5: with exclude pattern c/* and no rescuing include, the scan never
\* surfaces a file under c/, and no cleanup run queues the remote object
\* roaming/c/d for deletion while the local file c/d exists.
C5_CleanupKeepsFilteredObject ==
    \A p \in Procs :
        /\ \A f \in proc[p].files : ~StartsWith(f.rel, <<"c", "/">>)
        /\ (proc[p].args.cleanup /\ LocalPath("roaming", FileCD) \in DOMAIN fs) =>
              \A item \in proc[p].files_to_delete :
                  item.relative_key # _get_relative_s3_key(FileCD, "roaming")

\* C7: a dry run goes through its whole action set, calls no processor and
\* leaves the remote store, the local files and the configuration as they
\* were when it started.
C7_DryRunReadOnly ==
    \A p \in Procs :
        proc[p].args.dry_run =>
            /\ proc[p].called = {}
            /\ s3 = proc[p].at_start.s3
            /\ fs = proc[p].at_start.fs
            /\ config_file = proc[p].at_start.config_file
            /\ proc[p].config.disable_metadata = proc[p].at_start.config_file.disable_metadata
            /\ RanToEnd(p) =>
                  proc[p].visited = proc[p].files_to_upload \cup proc[p].files_to_download
                                      \cup proc[p].files_to_delete

\* C7 witness: a dry run that reported uploads and a deletion, at its end
C7_Witness ==
    \E p \in Procs :
        /\ proc[p].args.dry_run
        /\ RanToEnd(p)
        /\ proc[p].files_to_upload # {}
        /\ proc[p].files_to_delete # {}

\* C8: when a processor call raises, every other queued action of the run,
\* later lists included, is still attempted: a run that is not a dry run
\* ends only after calling the processor on every queued item.
C8_NoFailFast ==
    \A p \in Procs :
        /\ (proc[p].pc = "process" /\ ~proc[p].args.dry_run) =>
              proc[p].called = proc[p].visited
        /\ (RanToEnd(p) /\ ~proc[p].args.dry_run) =>
              proc[p].called = proc[p].files_to_upload \cup proc[p].files_to_download
                                 \cup proc[p].files_to_delete

\* C8 witness: a run with a failed upload whose later deletion was attempted
C8_Witness ==
    \E p \in Procs :
        /\ RanToEnd(p)
        /\ \E u \in proc[p].files_to_upload : u \in proc[p].failed
        /\ \E d \in proc[p].files_to_delete : d \in proc[p].called /\ d \notin proc[p].failed

\* C9: a mode-level call that is not a dry run returns failure when one of
\* its uploads, downloads or deletions failed, and the process exits non-zero.
C9_FailureReturned ==
    \A p \in Procs :
        (proc[p].pc = "done" /\ ~proc[p].args.dry_run /\ proc[p].failed # {}) =>
            /\ proc[p].result = "False"
            /\ proc[p].exit = 1

\* C9 witness: a run whose only failure was a deletion, after good uploads
C9_Witness ==
    \E p \in Procs :
        /\ proc[p].pc = "done"
        /\ proc[p].failed # {}
        /\ proc[p].failed \subseteq proc[p].files_to_delete
        /\ proc[p].files_to_upload # {}
        /\ proc[p].exit = 1

\* the run of p found nothing to work from: a push whose scan returned no
\* file, or a pull whose listing returned no object
EmptyListing(p) ==
    \/ /\ proc[p].args.command = "upload"
       /\ proc[p].pc # "idle"
       /\ proc[p].files = {}
    \/ /\ proc[p].args.command = "download"
       /\ proc[p].pc \in {"process", "done"}
       /\ DOMAIN proc[p].s3_objects = {}

\* C11: a push with an empty local listing and a pull with an empty remote
\* listing queue nothing and perform nothing, with cleanup on or off: the
\* remote store and the local files stay as they were at the start.
C11_EmptyListingNoOp ==
    \A p \in Procs :
        EmptyListing(p) =>
            /\ proc[p].files_to_upload = {}
            /\ proc[p].files_to_download = {}
            /\ proc[p].files_to_delete = {}
            /\ proc[p].visited = {}
            /\ proc[p].called = {}
            /\ s3 = proc[p].at_start.s3
            /\ fs = proc[p].at_start.fs

\* C11 witness: a push with cleanup, not a dry run, that scanned no file
\* while the store holds objects, at its end
C11_Witness ==
    \E p \in Procs :
        /\ proc[p].args.command = "upload"
        /\ proc[p].args.cleanup
        /\ ~proc[p].args.dry_run
        /\ proc[p].pc = "done"
        /\ proc[p].files = {}
        /\ DOMAIN s3 # {}

\* C12: a push with an empty local listing, or a pull with an empty remote
\* listing, does not return failure and the process does not exit non-zero.
C12_EmptyListingNotAnError ==
    \A p \in Procs :
        (EmptyListing(p) /\ proc[p].pc = "done") =>
            /\ proc[p].result # "False"
            /\ proc[p].exit = 0

\* two push runs in a row, cleanup off: the first of any kind, the second
\* for real; the store may be one that rejects user metadata, and then no
\* object carries any
InitPushTwice ==
    /\ InitWorld
    /\ LocalPath("roaming", FileA) \in DOMAIN fs
    /\ _get_s3_key(FileCD, "roaming") \notin DOMAIN s3
    /\ faults \in {{"op"}, {"op", "nometa"}}
    /\ "nometa" \in faults => \A k \in DOMAIN s3 : s3[k].meta = NoMetadata
    /\ \E first, second \in Commands :
          /\ first.command = "upload" /\ ~first.cleanup
          /\ second.command = "upload" /\ ~second.cleanup /\ ~second.dry_run
          /\ (first.no_cache \/ second.no_cache) => config_file.sync_cache_data
          /\ plan = [p \in Procs |-> IF p = "p1" THEN <<first, second>> ELSE <<>>]

NextPush ==
    \E p \in Procs :
        \/ Start(p)
        \/ AnalyzeUpload(p)
        \/ UploadStep(p)
        \/ Finish(p)

SpecPushTwice == InitPushTwice /\ [][NextPush]_vars

\* the run of p is a push, cleanup off, that follows a push, cleanup off,
\* and has its action lists
SecondPush(p) ==
    /\ prev[p].pc = "done"
    /\ prev[p].args.command = "upload" /\ ~prev[p].args.cleanup
    /\ proc[p].args.command = "upload" /\ ~proc[p].args.cleanup
    /\ proc[p].pc \in {"process", "done"}

-----------------------------------------------------------------------------
(* The action lists of push                                                *)

\* the run of p is a push that has built its action lists
PushAnalysed(p) ==
    /\ proc[p].args.command = "upload"
    /\ proc[p].pc \in {"process", "done"}
    /\ proc[p].result \in {"none", "True", "False"}
    /\ proc[p].files # {}

\* the relative keys of the scanned files
LocalKeys(p) == { _get_relative_s3_key(f.rel, f.root) : f \in proc[p].files }

\* the relative keys of the objects the store held when the run started
KeysAtStart(p) == { DropChars(key, Len(prefix)) : key \in DOMAIN proc[p].at_start.s3 }

\* the listing says this scanned file is stored and identical
StoredIdentical(p, f) ==
    LET k == _get_relative_s3_key(f.rel, f.root)
    IN /\ k \in DOMAIN proc[p].s3_objects
       /\ ~_files_are_different(_get_file_info(f), proc[p].s3_objects[k])

\* C15: a push skips a scanned file when incremental is set, its relative
\* key is listed and the comparator reports identical; it queues every
\* other scanned file exactly once, under prefix + role + "/" + path, and
\* queues nothing else.
C15_PushClassification ==
    \A p \in Procs :
        PushAnalysed(p) =>
            /\ UploadedFiles(p) \cup SkipIds(p) = proc[p].files
            /\ \A f \in proc[p].files :
                  IF proc[p].args.incremental /\ StoredIdentical(p, f)
                  THEN f \in SkipIds(p) /\ f \notin UploadedFiles(p)
                  ELSE /\ f \notin SkipIds(p)
                       /\ { item \in proc[p].files_to_upload : item.file_path = f } =
                            { item \in proc[p].files_to_upload :
                                item.s3_key = prefix \o TypeText(f.root) \o <<SLASH>> \o f.rel }
                       /\ Cardinality({ item \in proc[p].files_to_upload :
                                          item.file_path = f }) = 1

\* C15 witness: an incremental push with one file stored and identical,
\* skipped, and one absent from the store, queued
C15_Witness ==
    \E p \in Procs :
        /\ PushAnalysed(p)
        /\ proc[p].args.incremental
        /\ \E f \in proc[p].files : StoredIdentical(p, f) /\ f \in SkipIds(p)
        /\ \E f \in proc[p].files :
              /\ _get_relative_s3_key(f.rel, f.root) \notin KeysAtStart(p)
              /\ f \in UploadedFiles(p)

\* the relative keys a run queued for deletion
DeleteKeys(p) == { item.relative_key : item \in proc[p].files_to_delete }

\* C16: with cleanup, the deletion list of a push is exactly the listed
\* objects whose relative key no scanned file has, and only those objects
\* go; without cleanup the list is empty and no object is deleted, whether
\* incremental is set or not.
C16_PushDeletionSet ==
    \A p \in Procs :
        PushAnalysed(p) =>
            IF proc[p].args.cleanup
            THEN /\ DOMAIN proc[p].s3_objects = KeysAtStart(p)
                 /\ DeleteKeys(p) = KeysAtStart(p) \ LocalKeys(p)
                 /\ \A item \in proc[p].files_to_delete :
                       item.s3_key = prefix \o item.relative_key
                 /\ \A key \in DOMAIN proc[p].at_start.s3 \ DOMAIN s3 :
                       DropChars(key, Len(prefix)) \in DeleteKeys(p)
            ELSE /\ proc[p].files_to_delete = {}
                 /\ DOMAIN proc[p].at_start.s3 \subseteq DOMAIN s3

\* C16 witness: a full push with cleanup that deleted the one object no
\* scanned file has and kept the others
C16_Witness ==
    \E p \in Procs :
        /\ PushAnalysed(p)
        /\ proc[p].args.cleanup /\ ~proc[p].args.incremental
        /\ proc[p].pc = "done"
        /\ Cardinality(proc[p].files_to_delete) = 1
        /\ proc[p].files_to_delete \subseteq proc[p].called \ proc[p].failed
        /\ Cardinality(DOMAIN s3) = 2

-----------------------------------------------------------------------------
(* The action lists of pull and of the bidirectional mode                  *)

\* the run of p is a pull that has built its action lists and has called
\* no processor yet: the local files are those the analysis saw
PullAnalysed(p) ==
    /\ proc[p].args.command = "download"
    /\ proc[p].pc \in {"process", "done"}
    /\ DOMAIN proc[p].s3_objects # {}
    /\ proc[p].called = {}

\* the download entries of a listed key
DownloadsOf(p, k) == { item \in proc[p].files_to_download : item.relative_key = k }

\* the local path of a listed key, NoPath when it has no mapping
PathOf(p, k) == _get_download_path(k, proc[p].config.sync_cache_data)

\* C17: in a pull, a listed object with no mapping is in no list; a mapped
\* object is skipped iff incremental is set, its file exists and the
\* comparator reports identical; every other mapped object is queued for
\* download once, to its mapped path.
C17_PullClassification ==
    \A p \in Procs :
        PullAnalysed(p) =>
            /\ \A item \in proc[p].files_to_download :
                  item.relative_key \in DOMAIN proc[p].s3_objects
            /\ \A k \in DOMAIN proc[p].s3_objects :
                  IF PathOf(p, k) = NoPath
                  THEN /\ DownloadsOf(p, k) = {}
                       /\ k \notin DeleteKeys(p)
                       /\ \A id \in SkipIds(p) :
                             _get_relative_s3_key(id.rel, id.root) # k
                  ELSE IF /\ proc[p].args.incremental
                          /\ PathOf(p, k) \in DOMAIN fs
                          /\ ~_files_are_different(_get_file_info(PathOf(p, k)),
                                                   proc[p].s3_objects[k])
                  THEN PathOf(p, k) \in SkipIds(p) /\ DownloadsOf(p, k) = {}
                  ELSE /\ PathOf(p, k) \notin SkipIds(p)
                       /\ Cardinality(DownloadsOf(p, k)) = 1
                       /\ \A item \in DownloadsOf(p, k) :
                             /\ item.local_path = PathOf(p, k)
                             /\ item.s3_key = prefix \o k

\* C17 witness: an incremental pull, cache sync disabled, that lists an
\* object under local/, an object identical to its file and an object
\* whose file is missing
C17_Witness ==
    \E p \in Procs :
        /\ PullAnalysed(p)
        /\ proc[p].args.incremental
        /\ \E k \in DOMAIN proc[p].s3_objects : PathOf(p, k) = NoPath
        /\ proc[p].files_to_skip # {}
        /\ \E item \in proc[p].files_to_download : item.local_path \notin DOMAIN fs

\* the local files a pull queued for deletion
UnlinkedFiles(p) == { item.file_path : item \in proc[p].files_to_delete }

\* C18: with cleanup, the deletion list of a pull is exactly the files of
\* a fresh scan whose relative key is not listed, and only those files go;
\* without cleanup no local file is deleted.
C18_PullDeletionSet ==
    \A p \in Procs :
        (proc[p].args.command = "download" /\ proc[p].pc \in {"process", "done"}) =>
            IF proc[p].args.cleanup /\ DOMAIN proc[p].s3_objects # {}
            THEN /\ proc[p].called = {} =>
                       UnlinkedFiles(p) =
                           { f \in get_local_files(proc[p].config) :
                               _get_relative_s3_key(f.rel, f.root)
                                   \notin DOMAIN proc[p].s3_objects }
                 /\ DOMAIN proc[p].at_start.fs \ DOMAIN fs \subseteq UnlinkedFiles(p)
            ELSE /\ proc[p].files_to_delete = {}
                 /\ DOMAIN proc[p].at_start.fs \subseteq DOMAIN fs

\* C18 witness: a pull with cleanup deleted a scanned file that has no
\* object, and left alone a file the scan excludes that has none either
C18_Witness ==
    \E p \in Procs :
        /\ proc[p].args.command = "download"
        /\ proc[p].args.cleanup
        /\ proc[p].pc = "done"
        /\ \E item \in proc[p].files_to_delete :
              item \in proc[p].called \ proc[p].failed
        /\ LocalPath("roaming", FileCD) \in DOMAIN fs
        /\ _get_s3_key(FileCD, "roaming") \notin DOMAIN s3

\* the run of p is a bidirectional run that has built its action lists and
\* has called no processor yet
SyncAnalysed(p) ==
    /\ proc[p].args.command = "sync"
    /\ proc[p].pc \in {"process", "done"}
    /\ proc[p].called = {}

\* C19: in a bidirectional run every key of a scanned file that is not
\* listed is queued for upload, every listed key no scanned file has is
\* queued for download to its mapped path when it has one, and gets no
\* action when it has none.
C19_BidirectionalOneSided ==
    \A p \in Procs :
        SyncAnalysed(p) =>
            /\ \A f \in proc[p].files :
                  _get_relative_s3_key(f.rel, f.root) \notin DOMAIN proc[p].s3_objects =>
                      /\ \E item \in proc[p].files_to_upload :
                            /\ item.file_path = f
                            /\ item.s3_key = prefix \o _get_relative_s3_key(f.rel, f.root)
                      /\ \A item \in proc[p].files_to_download : item.local_path # f
            /\ \A k \in DOMAIN proc[p].s3_objects \ LocalKeys(p) :
                  /\ prefix \o k \notin UploadKeys(p)
                  /\ k \notin SkipIds(p)
                  /\ IF PathOf(p, k) = NoPath
                     THEN DownloadsOf(p, k) = {}
                     ELSE /\ Cardinality(DownloadsOf(p, k)) = 1
                          /\ \A item \in DownloadsOf(p, k) :
                                item.local_path = PathOf(p, k)

\* C19 witness: a bidirectional run, cache sync disabled, with a file that
\* has no object, an object that has no file and an object under local/
C19_Witness ==
    \E p \in Procs :
        /\ SyncAnalysed(p)
        /\ \E f \in proc[p].files :
              _get_relative_s3_key(f.rel, f.root) \notin DOMAIN proc[p].s3_objects
        /\ \E k \in DOMAIN proc[p].s3_objects \ LocalKeys(p) :
              PathOf(p, k) # NoPath /\ DownloadsOf(p, k) # {}
        /\ \E k \in DOMAIN proc[p].s3_objects : PathOf(p, k) = NoPath

-----------------------------------------------------------------------------
(* Two bidirectional runs over the same state, one with cleanup            *)

\* a dry bidirectional run, then a bidirectional run with the other value
\* of cleanup and the same cache-sync setting
InitSyncTwice ==
    /\ InitWorld
    /\ faults = {}
    /\ \E first, second \in Commands :
          /\ first.command = "sync" /\ first.dry_run
          /\ second.command = "sync" /\ second.cleanup # first.cleanup
          /\ second.no_cache = first.no_cache
          /\ first.no_cache => config_file.sync_cache_data
          /\ plan = [p \in Procs |-> IF p = "p1" THEN <<first, second>> ELSE <<>>]

NextSyncTwice ==
    \E p \in Procs :
        \/ Start(p)
        \/ AnalyzeSync(p)
        \/ UploadStep(p)
        \/ DownloadStep(p)
        \/ Finish(p)

SpecSyncTwice == InitSyncTwice /\ [][NextSyncTwice]_vars

\* the run of p is the second of two bidirectional runs and has built its
\* action lists
SecondSync(p) ==
    /\ prev[p].pc = "done"
    /\ prev[p].args.command = "sync"
    /\ proc[p].args.command = "sync"
    /\ proc[p].pc \in {"process", "done"}

-----------------------------------------------------------------------------
(* A push that is interrupted, then run again                              *)

\* two files to push; the first push, of any kind, can be killed between
\* two actions; the second is incremental, for real, and nothing fails
InitResume ==
    /\ InitWorld
    /\ config_file.sync_cache_data
    /\ LocalPath("roaming", FileA) \in DOMAIN fs
    /\ LocalPath("local", FileA) \in DOMAIN fs
    /\ faults \in {{"crash"}, {"crash", "nometa"}}
    /\ "nometa" \in faults => \A k \in DOMAIN s3 : s3[k].meta = NoMetadata
    /\ \E first, second \in Commands :
          /\ first.command = "upload" /\ ~first.no_cache
          /\ second.command = "upload" /\ ~second.no_cache
          /\ second.incremental /\ ~second.dry_run
          /\ plan = [p \in Procs |-> IF p = "p1" THEN <<first, second>> ELSE <<>>]

NextResume ==
    \E p \in Procs :
        \/ Start(p)
        \/ AnalyzeUpload(p)
        \/ UploadStep(p)
        \/ DeleteRemoteStep(p)
        \/ Finish(p)
        \/ Interrupt(p)

SpecResume == InitResume /\ [][NextResume]_vars

\* the run of p is a push that follows an interrupted push, and has its
\* action lists
Resumed(p) ==
    /\ prev[p].result = "interrupted"
    /\ proc[p].args.command = "upload"
    /\ proc[p].pc \in {"process", "done"}

\* C13: the incremental push that follows an interrupted push lists the
\* store as it is now, queues exactly the scanned files whose object is
\* absent or reported different, and ends with every scanned file having
\* an object the comparator reports identical.
C13_Resumable ==
    \A p \in Procs :
        Resumed(p) =>
            /\ { prefix \o k : k \in DOMAIN proc[p].s3_objects } = DOMAIN proc[p].at_start.s3
            /\ UploadedFiles(p) =
                  { f \in proc[p].files :
                      LET k == _get_relative_s3_key(f.rel, f.root)
                      IN \/ prefix \o k \notin DOMAIN proc[p].at_start.s3
                         \/ _files_are_different(_get_file_info(f), proc[p].s3_objects[k]) }
            /\ proc[p].pc = "done" =>
                  /\ proc[p].result = "True"
                  /\ \A f \in proc[p].files :
                        LET k == _get_relative_s3_key(f.rel, f.root)
                            listing == _list_s3_objects(proc[p].config.disable_metadata)
                        IN /\ k \in DOMAIN listing
                           /\ ~_files_are_different(_get_file_info(f), listing[k])

\* C13 witness: the first push was killed after one of its two uploads;
\* the second skipped the file that was stored and uploaded the other
C13_Witness ==
    \E p \in Procs :
        /\ Resumed(p)
        /\ proc[p].pc = "done"
        /\ ~prev[p].args.dry_run
        /\ Cardinality(prev[p].files_to_upload) = 2
        /\ Cardinality(prev[p].called) = 1
        /\ Cardinality(proc[p].files_to_upload) = 1
        /\ Cardinality(proc[p].files_to_skip) = 1

-----------------------------------------------------------------------------
(* The namespace mapper as a function of its inputs                        *)

\* longest relative path, in characters
MaxPathLen == 3

PathChars == {"a", "b", BACKSLASH, SLASH}

\* relative paths: no empty component
RelPaths ==
    { rel \in UNION { [1..n -> PathChars] : n \in 1..MaxPathLen } :
        /\ rel[1] # SLASH
        /\ rel[Len(rel)] # SLASH
        /\ \A i \in 1..(Len(rel) - 1) : ~(rel[i] = SLASH /\ rel[i + 1] = SLASH) }

\* no process runs and nothing is stored
Quiet ==
    /\ fs = <<>>
    /\ s3 = <<>>
    /\ now = 3
    /\ plan = [p \in Procs |-> <<>>]
    /\ faults = {}
    /\ proc = [p \in Procs |-> IdleProc]
    /\ prev = [p \in Procs |-> IdleProc]

InitMap ==
    /\ config_file \in Configs
    /\ Quiet
    /\ pin \in [rel : RelPaths, path_type : {"roaming", "local"},
                step : {"path"}, key : {None}, back : {NoPath}]

\* a file of a root is mapped to its relative key
ToRemoteKey ==
    /\ pin.step = "path"
    /\ pin' = [pin EXCEPT !.step = "key",
                          !.key = _get_relative_s3_key(pin.rel, pin.path_type)]
    /\ UNCHANGED <<config_file, fs, s3, now, plan, faults, proc, prev>>

\* the key is mapped back to a local path
ToLocalPath ==
    /\ pin.step = "key"
    /\ pin' = [pin EXCEPT !.step = "back",
                          !.back = _get_download_path(pin.key, config_file.sync_cache_data)]
    /\ UNCHANGED <<config_file, fs, s3, now, plan, faults, proc, prev>>

NextMap == ToRemoteKey \/ ToLocalPath

SpecMap == InitMap /\ [][NextMap]_vars

\* C2: for every path under a root the program synchronises (the roaming
\* root, and the local root when cache sync is enabled), mapping it to its
\* relative key and the key back gives the root and the path again.
C2_MappingInverse ==
    ( /\ pin.step = "back"
      /\ pin.path_type = "roaming" \/ config_file.sync_cache_data ) =>
        pin.back = LocalPath(pin.path_type, pin.rel)

-----------------------------------------------------------------------------
(* The pattern classifier as a function of its inputs                      *)

ClassifyPaths ==
    { <<"a">>, <<"d">>, <<"c", "/", "d">>, <<"c", "/", "e">>,
      <<"b", "/", "c", "/", "d">>, <<"a", "b">> }

ClassifyExcludes ==
    { <<>>, << <<"c", "/", "*">> >>, << <<"c", "/", "d">> >>, << <<"d">> >>,
      << <<"a", "?">>, <<"e">> >>, << <<"*", "d">> >> }

ClassifyIncludes ==
    { <<>>, << <<"c", "/", "e">> >>, << <<"a">> >>, << <<"c", "/", "d">> >>,
      << <<"d">>, <<"a", "*">> >> }

InitClassify ==
    /\ config_file \in [sync_cache_data : {FALSE}, disable_metadata : {FALSE},
                        exclude_patterns : ClassifyExcludes,
                        include_patterns : ClassifyIncludes]
    /\ Quiet
    /\ pin \in [rel : ClassifyPaths, step : {"path"}, result : {FALSE}]

\* should_include_file is called on a file of the root
Classify ==
    /\ pin.step = "path"
    /\ pin' = [pin EXCEPT !.step = "classified",
                          !.result = should_include_file(pin.rel,
                                                         config_file.exclude_patterns,
                                                         config_file.include_patterns)]
    /\ UNCHANGED <<config_file, fs, s3, now, plan, faults, proc, prev>>

NextClassify == Classify

SpecClassify == InitClassify /\ [][NextClassify]_vars

\* the patterns of a list
PatternsOf(patterns) == { patterns[i] : i \in 1..Len(patterns) }

\* C21: should_include_file returns true iff no exclude pattern matches
\* the relative path or the file name; a path an exclude pattern matches
\* is rejected even when an include pattern matches it too, and the result
\* is the one an empty include list gives.
C21_ExcludeDominance ==
    pin.step = "classified" =>
        /\ pin.result =
              (\A pat \in PatternsOf(config_file.exclude_patterns) :
                  ~fnmatch(pin.rel, pat) /\ ~fnmatch(PathName(pin.rel), pat))
        /\ pin.result = should_include_file(pin.rel, config_file.exclude_patterns, <<>>)

\* C21 witness: the file c/d, which the exclude pattern *d and the include
\* pattern c/d both match, is rejected
C21_Witness ==
    /\ pin.step = "classified"
    /\ pin.rel = <<"c", "/", "d">>
    /\ \E pat \in PatternsOf(config_file.exclude_patterns) : fnmatch(pin.rel, pat)
    /\ \E pat \in PatternsOf(config_file.include_patterns) : fnmatch(pin.rel, pat)
    /\ ~pin.result

-----------------------------------------------------------------------------
(* The side a one-way run leaves alone                                     *)

\* C30: a push run creates, overwrites and deletes no file under the roaming
\* or the local root, and a pull run puts and deletes no object, whatever
\* the flags.
C30_OneWay ==
    \A p \in Procs :
        /\ proc[p].args.command = "upload" => fs = proc[p].at_start.fs
        /\ proc[p].args.command = "download" => s3 = proc[p].at_start.s3

\* C30 witness: a pull with cleanup has fetched an object and unlinked a
\* file, and the store is as it was
C30_Witness ==
    \E p \in Procs :
        /\ proc[p].args.command = "download"
        /\ proc[p].args.cleanup
        /\ proc[p].pc = "done"
        /\ proc[p].failed = {}
        /\ proc[p].called \cap proc[p].files_to_download # {}
        /\ proc[p].called \cap proc[p].files_to_delete # {}
        /\ fs # proc[p].at_start.fs
        /\ s3 = proc[p].at_start.s3
        /\ s3 # <<>>

-----------------------------------------------------------------------------
(* Downloads and the patterns                                              *)

\* should_include_file of a local path under the patterns of a run
IncludedPath(p, path) ==
    should_include_file(path.rel, proc[p].config.exclude_patterns,
                        proc[p].config.include_patterns)

\* C31: a pull or a bidirectional run queues a download only onto a path
\* that should_include_file accepts, so that a local file the patterns
\* exclude is never overwritten by an object.
C31_DownloadsRespectPatterns ==
    \A p \in Procs :
        (proc[p].args.command \in {"download", "sync"} /\ proc[p].pc \in {"process", "done"}) =>
            \A item \in proc[p].files_to_download : IncludedPath(p, item.local_path)

-----------------------------------------------------------------------------
(* The age of the content a bidirectional run fetches                      *)

\* the downloads of a bidirectional run onto files of its scan: the keys
\* both sides hold, with differing content, that the conflict rule gave to
\* the remote side
ConflictDownloads(p) ==
    { item \in proc[p].files_to_download : item.local_path \in proc[p].files }

\* C32: a bidirectional run replaces an existing local file only by remote
\* content whose original modification time, the local mtime recorded at
\* upload, is not less than the mtime of the local file.
C32_NoOlderContentFetched ==
    \A p \in Procs :
        (proc[p].args.command = "sync" /\ proc[p].pc \in {"process", "done"}) =>
            \A item \in ConflictDownloads(p) :
                LET obj == proc[p].at_start.s3[item.s3_key]
                    file == proc[p].at_start.fs[item.local_path]
                IN "original-mtime" \in DOMAIN obj.meta =>
                      obj.meta["original-mtime"] >= file.mtime

-----------------------------------------------------------------------------
(* Two bidirectional runs, the first one carried out                       *)

\* a bidirectional run that is not a dry run, then a second one under the
\* same cache-sync setting; no processor call fails
InitSyncAgain ==
    /\ InitWorld
    /\ faults = {}
    /\ \E first, second \in Commands :
          /\ first.command = "sync" /\ ~first.dry_run
          /\ second.command = "sync"
          /\ second.no_cache = first.no_cache
          /\ first.no_cache => config_file.sync_cache_data
          /\ plan = [p \in Procs |-> IF p = "p1" THEN <<first, second>> ELSE <<>>]

SpecSyncAgain == InitSyncAgain /\ [][NextSyncTwice]_vars

\* C29: after a bidirectional run in which every upload and download
\* succeeded, a second bidirectional run queues no upload and no download.
C29_BidirectionalConverges ==
    \A p \in Procs :
        ( /\ SecondSync(p)
          /\ prev[p].result = "True"
          /\ ~prev[p].args.dry_run ) =>
            /\ proc[p].files_to_upload = {}
            /\ proc[p].files_to_download = {}

-----------------------------------------------------------------------------
(* A pull whose listing of the store can fail part-way                     *)

InitListFail ==
    /\ InitWorld
    /\ faults = {"list"}
    /\ \E cmd \in Commands :
          /\ cmd.command = "download"
          /\ cmd.no_cache => config_file.sync_cache_data
          /\ plan = [p \in Procs |-> IF p = "p1" THEN <<cmd>> ELSE <<>>]

NextPull ==
    \E p \in Procs :
        \/ Start(p)
        \/ AnalyzeDownload(p)
        \/ DownloadStep(p)
        \/ DeleteLocalStep(p)
        \/ Finish(p)

SpecListFail == InitListFail /\ [][NextPull]_vars

\* C28: a pull with cleanup queues a local file for deletion only if the
\* store holds no object with the file's relative key under the prefix, also
\* when the listing fails part-way through its pages.
C28_PullDeletesOnlyUnstored ==
    \A p \in Procs :
        (proc[p].args.command = "download" /\ proc[p].pc \in {"process", "done"}) =>
            \A item \in proc[p].files_to_delete :
                prefix \o item.relative_key \notin DOMAIN proc[p].at_start.s3

-----------------------------------------------------------------------------
(* A store that holds an object whose key has no role segment              *)

\* an object under the prefix that another tool, or an earlier layout, put
\* there: its key is the prefix and a path, without roaming/ or local/
LegacyKey == prefix \o FileA

WithLegacyObject(objects) ==
    [k \in DOMAIN objects \cup {LegacyKey} |->
        IF k \in DOMAIN objects THEN objects[k]
        ELSE [content |-> "c3", mtime |-> 2, meta |-> NoMetadata]]

\* one command of any mode over a store that holds such an object
InitLegacy ==
    /\ config_file \in Configs
    /\ fs \in LocalStates
    /\ s3 \in { WithLegacyObject(objects) : objects \in RemoteStates }
    /\ now = 3
    /\ proc = [p \in Procs |-> IdleProc]
    /\ prev = [p \in Procs |-> IdleProc]
    /\ pin = <<>>
    /\ faults = {}
    /\ \E cmd \in Commands :
          /\ cmd.no_cache => config_file.sync_cache_data
          /\ plan = [p \in Procs |-> IF p = "p1" THEN <<cmd>> ELSE <<>>]

SpecLegacy == InitLegacy /\ [][Next]_vars

\* the local paths the queued downloads write
DownloadTargets(p) == { item.local_path : item \in proc[p].files_to_download }

\* C27: in a run no local path is both an upload source and a download
\* target, no path is both downloaded or skipped and queued for local
\* deletion, and no key is both uploaded and queued for remote deletion.
C27_OneActionPerTarget ==
    \A p \in Procs :
        proc[p].pc \in {"process", "done"} =>
            /\ UploadedFiles(p) \cap DownloadTargets(p) = {}
            /\ proc[p].args.command = "download" =>
                  (DownloadTargets(p) \cup SkipIds(p)) \cap UnlinkedFiles(p) = {}
            /\ proc[p].args.command = "upload" =>
                  UploadKeys(p) \cap { item.s3_key : item \in proc[p].files_to_delete } = {}

-----------------------------------------------------------------------------
(* The pruning decision as a function of its inputs                        *)

\* names of subdirectories
DirNames == { <<"a">>, <<"b">>, <<"c">>, <<"d">> }

PruneIncludes == ClassifyIncludes \cup { << <<"c">> >> }

InitPrune ==
    /\ config_file \in [sync_cache_data : {FALSE}, disable_metadata : {FALSE},
                        exclude_patterns : ClassifyExcludes,
                        include_patterns : PruneIncludes]
    /\ Quiet
    /\ pin \in [d : DirNames, step : {"dir"}, result : {FALSE}]

\* the walk of _scan_directory decides on a subdirectory
Prune ==
    /\ pin.step = "dir"
    /\ pin' = [pin EXCEPT !.step = "decided",
                          !.result = DirSkipped(pin.d, config_file.exclude_patterns,
                                                config_file.include_patterns)]
    /\ UNCHANGED <<config_file, fs, s3, now, plan, faults, proc, prev>>

NextPrune == Prune

SpecPrune == InitPrune /\ [][NextPrune]_vars

\* the first segments of the patterns of a list
FirstSegments(patterns) == { FirstSegment(pat) : pat \in patterns }

\* the patterns of a list that contain '/'
WithSlash(patterns) == { pat \in PatternsOf(patterns) : HasSlash(pat) }

\* C26 as stated: a subdirectory is pruned iff its name matches the first
\* segment of some exclude pattern and of no include pattern, patterns
\* without '/' included.
C26_PruneRule ==
    pin.step = "decided" =>
        pin.result =
            ( /\ \E seg \in FirstSegments(PatternsOf(config_file.exclude_patterns)) :
                    fnmatch(pin.d, seg)
              /\ \A seg \in FirstSegments(PatternsOf(config_file.include_patterns)) :
                    ~fnmatch(pin.d, seg) )

\* C26 amended: a subdirectory is pruned iff its name matches the first
\* segment of some exclude pattern that contains '/' and of no include
\* pattern that contains '/'.
C26_PruneRuleAmended ==
    pin.step = "decided" =>
        pin.result =
            ( /\ \E seg \in FirstSegments(WithSlash(config_file.exclude_patterns)) :
                    fnmatch(pin.d, seg)
              /\ \A seg \in FirstSegments(WithSlash(config_file.include_patterns)) :
                    ~fnmatch(pin.d, seg) )

\* C26 witness: the directory c is pruned under the exclude pattern c/*
\* although the include pattern c, which has no '/', matches its name
C26_Witness ==
    /\ pin.step = "decided"
    /\ pin.d = <<"c">>
    /\ \E pat \in PatternsOf(config_file.include_patterns) :
          ~HasSlash(pat) /\ fnmatch(pin.d, pat)
    /\ pin.result

-----------------------------------------------------------------------------
(* The identity comparator as a function of its inputs                     *)

\* the records _get_file_info and _list_s3_objects can hand to the
\* comparator; a hash of None stands for None and for the empty string
\* calculate_file_hash returns when the file cannot be read
CompareRecords ==
    { [exists |-> FALSE] } \cup
    [exists : {TRUE}, size : {1, 2}, mtime : {1, 2},
     hash : {None, calculate_file_hash("c1"), calculate_file_hash("c2")}]

InitCompare ==
    /\ config_file \in [sync_cache_data : {FALSE}, disable_metadata : {FALSE},
                        exclude_patterns : {ExcludePatterns},
                        include_patterns : {IncludePatterns}]
    /\ Quiet
    /\ pin \in [local_info : CompareRecords, s3_info : CompareRecords,
                step : {"records"}, result : {FALSE}]

\* _files_are_different is called on a local and a remote record
Compare ==
    /\ pin.step = "records"
    /\ pin' = [pin EXCEPT !.step = "compared",
                          !.result = _files_are_different(pin.local_info, pin.s3_info)]
    /\ UNCHANGED <<config_file, fs, s3, now, plan, faults, proc, prev>>

NextCompare == Compare

SpecCompare == InitCompare /\ [][NextCompare]_vars

\* both records exist
BothExist == pin.local_info.exists /\ pin.s3_info.exists

\* C22: two existing records that carry the same non-empty hash are not
\* different, whatever their sizes and mtimes.
C22_EqualHashesIdentical ==
    ( /\ pin.step = "compared"
      /\ BothExist
      /\ pin.local_info.hash # None
      /\ pin.local_info.hash = pin.s3_info.hash ) =>
        ~pin.result

\* C22 witness: equal hashes with different sizes and different mtimes
C22_Witness ==
    /\ pin.step = "compared"
    /\ BothExist
    /\ pin.local_info.hash # None
    /\ pin.local_info.hash = pin.s3_info.hash
    /\ pin.local_info.size # pin.s3_info.size
    /\ pin.local_info.mtime # pin.s3_info.mtime
    /\ ~pin.result

\* C25: when both records exist and one of them has no non-empty hash, the
\* records are different iff their sizes differ, whatever their mtimes.
C25_SizeFallback ==
    ( /\ pin.step = "compared"
      /\ BothExist
      /\ pin.local_info.hash = None \/ pin.s3_info.hash = None ) =>
        pin.result = (pin.local_info.size # pin.s3_info.size)

\* C25 witness: the remote record has no hash, the sizes are equal and the
\* mtimes are not: the records are identical
C25_Witness ==
    /\ pin.step = "compared"
    /\ BothExist
    /\ pin.local_info.hash # None
    /\ pin.s3_info.hash = None
    /\ pin.local_info.size = pin.s3_info.size
    /\ pin.local_info.mtime # pin.s3_info.mtime
    /\ ~pin.result

-----------------------------------------------------------------------------
(* A push followed by a full pull, metadata enabled                        *)

\* local files last modified at second 0, 1 or 2 of the epoch, an empty
\* store that takes metadata; a push, then a pull that fetches everything
InitRoundTrip ==
    /\ config_file \in [sync_cache_data : BOOLEAN, disable_metadata : {FALSE},
                        exclude_patterns : {ExcludePatterns},
                        include_patterns : {IncludePatterns}]
    /\ fs \in UNION { [S -> [content : {"c1"}, mtime : {0, 1, 2}]] :
                       S \in { T \in SUBSET LocalUniverse :
                                 LocalPath("roaming", FileA) \in T } }
    /\ s3 = <<>>
    /\ now = 3
    /\ faults = {}
    /\ proc = [p \in Procs |-> IdleProc]
    /\ prev = [p \in Procs |-> IdleProc]
    /\ pin = <<>>
    /\ \E first, second \in Commands :
          /\ first.command = "upload" /\ ~first.dry_run
          /\ ~first.cleanup /\ ~first.no_cache
          /\ second.command = "download" /\ ~second.dry_run
          /\ ~second.incremental /\ ~second.cleanup /\ ~second.no_cache
          /\ plan = [p \in Procs |-> IF p = "p1" THEN <<first, second>> ELSE <<>>]

NextRoundTrip ==
    \E p \in Procs :
        \/ Start(p)
        \/ AnalyzeUpload(p)
        \/ UploadStep(p)
        \/ AnalyzeDownload(p)
        \/ DownloadStep(p)
        \/ Finish(p)

SpecRoundTrip == InitRoundTrip /\ [][NextRoundTrip]_vars

\* C23: a file uploaded with metadata enabled and downloaded with metadata
\* enabled has, after the download, the mtime it had when it was uploaded,
\* whatever that mtime is.
C23_MtimeRoundTrip ==
    \A p \in Procs :
        ( /\ prev[p].args.command = "upload"
          /\ prev[p].pc = "done"
          /\ ~prev[p].config.disable_metadata
          /\ proc[p].args.command = "download"
          /\ ~proc[p].config.disable_metadata ) =>
            \A item \in proc[p].called \ proc[p].failed :
                item.s3_key \in { u.s3_key : u \in prev[p].called \ prev[p].failed } =>
                    fs[item.local_path].mtime =
                        prev[p].at_start.fs[item.local_path].mtime

-----------------------------------------------------------------------------
(* Two push runs at the same time                                          *)

\* two processes push the same local files to the same prefix, each with
\* its own flags; time passes while they run
InitRace ==
    /\ InitWorld
    /\ config_file.sync_cache_data
    /\ ~config_file.disable_metadata
    /\ LocalPath("roaming", FileA) \in DOMAIN fs
    /\ LocalPath("roaming", FileCD) \notin DOMAIN fs
    /\ _get_s3_key(FileCD, "roaming") \notin DOMAIN s3
    /\ faults = {}
    /\ \E one, two \in Commands :
          /\ one.command = "upload" /\ two.command = "upload"
          /\ ~one.dry_run /\ ~one.cleanup /\ ~one.no_cache
          /\ ~two.dry_run /\ ~two.cleanup /\ ~two.no_cache
          /\ plan = [p \in Procs |-> IF p = "p1" THEN <<one>> ELSE <<two>>]

NextRace ==
    \/ \E p \in Procs :
          \/ Start(p)
          \/ AnalyzeUpload(p)
          \/ UploadStep(p)
          \/ Finish(p)
    \/ TimePasses

SpecRace == InitRace /\ [][NextRace]_vars

\* the put_object calls all processes have made on a key
PutsOn(key) == UNION { { r \in proc[p].puts : r.s3_key = key } : p \in Procs }

\* the latest of a non-empty set of times
Latest(times) == CHOOSE t \in times : \A u \in times : u <= t

\* C24: two push runs at the same time are not kept apart: both can queue
\* the same key, and a key that has been put holds the object of the put
\* that was made last: its LastModified is the time of the latest put and
\* its body the content of the local file.
C24_LastWriterWins ==
    \A key \in DOMAIN s3 :
        PutsOn(key) # {} =>
            /\ s3[key].mtime = Latest({ r.at : r \in PutsOn(key) })
            /\ \E f \in DOMAIN fs :
                  /\ _get_s3_key(f.rel, f.root) = key
                  /\ s3[key].content = fs[f].content

\* C24 witness: both runs queued the same key, both put it, at different
\* times, and both have finished
C24_Witness ==
    \E key \in DOMAIN s3 :
        /\ \A p \in Procs :
              /\ proc[p].pc = "done"
              /\ key \in UploadKeys(p)
              /\ \E r \in proc[p].puts : r.s3_key = key
        /\ \E r1 \in proc["p1"].puts, r2 \in proc["p2"].puts :
              r1.s3_key = key /\ r2.s3_key = key /\ r1.at < r2.at
        /\ s3[key].mtime = Latest({ r.at : r \in PutsOn(key) })

-----------------------------------------------------------------------------
(* The scan over directory trees and pattern sets                          *)

TreeFiles ==
    { LocalPath("roaming", rel) :
        rel \in { <<"a">>, <<"c", "/", "d">>, <<"c", "/", "e">>,
                  <<"b", "/", "c", "/", "d">> } }

ScanExcludes ==
    { << <<"c", "/", "*">> >>, << <<"c", "/", "d">> >>, << <<"d">> >>,
      << <<"c", "/", "*">>, <<"e">> >> }

ScanIncludes == { <<>>, << <<"c", "/", "e">> >>, << <<"a">> >> }

\* one push, dry run, over a tree of the roaming root
InitScan ==
    /\ config_file \in [sync_cache_data : {FALSE}, disable_metadata : {FALSE},
                        exclude_patterns : ScanExcludes, include_patterns : ScanIncludes]
    /\ fs \in UNION { [S -> {[content |-> "c1", mtime |-> 2]}] : S \in SUBSET TreeFiles }
    /\ s3 = <<>>
    /\ now = 3
    /\ plan = [p \in Procs |->
                IF p = "p1"
                THEN <<[command |-> "upload", dry_run |-> TRUE, incremental |-> TRUE,
                        cleanup |-> FALSE, no_cache |-> FALSE]>>
                ELSE <<>>]
    /\ faults = {}
    /\ proc = [p \in Procs |-> IdleProc]
    /\ prev = [p \in Procs |-> IdleProc]
    /\ pin = <<>>

NextScan == \E p \in Procs : Start(p)

SpecScan == InitScan /\ [][NextScan]_vars

\* C6: the pruned walk returns exactly the files should_include_file keeps.
C6_PruningConservative ==
    \A p \in Procs :
        proc[p].pc # "idle" =>
            proc[p].files =
                { f \in DOMAIN fs :
                    should_include_file(f.rel, proc[p].config.exclude_patterns,
                                        proc[p].config.include_patterns) }

-----------------------------------------------------------------------------
(* Runs during which local files can disappear                             *)

InitVanish ==
    /\ InitWorld
    /\ config_file.sync_cache_data
    /\ ~config_file.disable_metadata
    /\ Cardinality(DOMAIN fs) >= 2
    /\ _get_s3_key(FileCD, "roaming") \notin DOMAIN s3
    /\ faults = {"op", "vanish"}
    /\ \E cmd \in Commands :
          /\ ~cmd.no_cache
          /\ plan = [p \in Procs |-> IF p = "p1" THEN <<cmd>> ELSE <<>>]

NextVanish == Next \/ FileVanishes

SpecVanish == InitVanish /\ [][NextVanish]_vars

\* C10: a scanned file that vanishes before it is analysed or transferred
\* does not abort the run: the run goes on to its end, and every scanned
\* file is skipped or has had its transfer attempted.
C10_VanishedFileRecovered ==
    \A p \in Procs :
        (proc[p].pc = "done" /\ proc[p].files # {}) =>
            /\ proc[p].result \in {"True", "False"}
            /\ \A f \in proc[p].files :
                  \/ (IF proc[p].args.command = "sync"
                      THEN _get_relative_s3_key(f.rel, f.root) ELSE f) \in SkipIds(p)
                  \/ \E item \in proc[p].visited :
                        item.kind = "upload" /\ item.file_path = f
                  \/ \E item \in proc[p].visited :
                        item.kind = "download" /\ item.local_path = f

====
